---- MODULE Spec2Model ----
(***************************************************************************)
(* A model of the 8080 emulator core (src/src/core.c) and of its driver    *)
(* loop (src/src/emu.c).  The processor state is the record `state`, whose *)
(* fields carry the names of State8080 and ConditionCodes.  Memory is a    *)
(* function on the cells whose content is known so far: the program image  *)
(* and the bytes left in the heap by malloc are inputs, and a cell gets    *)
(* its value the first time an instruction reads it.                       *)
(***************************************************************************)
EXTENDS Integers, Sequences, FiniteSets, TLC

VARIABLES state, fsize, instr_count, instrs_to_advance, loc, hist, report, asked

vars == <<state, fsize, instr_count, instrs_to_advance, loc, hist, report, asked>>

(***************************************************************************)
(* Program constants.                                                      *)
(***************************************************************************)
\* size_t max_size = 1 << 15
MemSize == 32768

MAX_STEPS == 100000

SET_Z_FLAG == 128

SET_S_FLAG == 64

SET_P_FLAG == 32

SET_CY_FLAG == 16

SET_AC_FLAG == 8

SET_ALL_FLAGS == SET_Z_FLAG + SET_S_FLAG + SET_P_FLAG + SET_CY_FLAG + SET_AC_FLAG

(***************************************************************************)
(* Bounds of the model.                                                    *)
(***************************************************************************)
\* the run loop is followed for at most MaxSteps dispatched instructions
MaxSteps == 2

(***************************************************************************)
(* C integer conversions and bitwise operators.                            *)
(***************************************************************************)
U8(x) == x % 256

U16(x) == x % 65536

RECURSIVE BitAnd(_, _)
BitAnd(x, y) ==
    IF x = 0 \/ y = 0 THEN 0
    ELSE (x % 2) * (y % 2) + 2 * BitAnd(x \div 2, y \div 2)

RECURSIVE BitOr(_, _)
BitOr(x, y) ==
    IF x = 0 THEN y
    ELSE IF y = 0 THEN x
    ELSE (IF x % 2 = 1 \/ y % 2 = 1 THEN 1 ELSE 0) + 2 * BitOr(x \div 2, y \div 2)

RECURSIVE BitXor(_, _)
BitXor(x, y) ==
    IF x = 0 THEN y
    ELSE IF y = 0 THEN x
    ELSE ((x + y) % 2) + 2 * BitXor(x \div 2, y \div 2)

Bool(b) == IF b THEN 1 ELSE 0

(***************************************************************************)
(* Flags (core.c, "// Flags").                                             *)
(***************************************************************************)
\* zero testing the whole answer, without the mask to 8 bits
zero_mut(answer) == Bool(answer = 0)

zero(answer) == Bool(BitAnd(answer, 255) = 0)

\* sign returning 1 when bit 7 is set
sign_mut(answer) == Bool(BitAnd(answer, 128) # 0)

sign(answer) == Bool(BitAnd(answer, 128) = 0)

sign32(answer) == Bool(BitAnd(answer, 32768) = 0)

\* while (ans8bit) { parity = !parity; ans8bit = ans8bit & (ans8bit - 1); }
RECURSIVE parity_loop(_, _)
parity_loop(par, ans8bit) ==
    IF ans8bit = 0 THEN par
    ELSE parity_loop(1 - par, BitAnd(ans8bit, ans8bit - 1))

\* parity starting its loop from 1, so that an even count gives 1
parity_mut(answer) == parity_loop(1, BitAnd(answer, 255))

parity(answer) == parity_loop(0, BitAnd(answer, 255))

carry(answer) == Bool(answer > 255)

carry32(answer) == Bool(answer > 65535)

\* auxcarry comparing the masked value with 0xf, the carry out of bit 3
auxcarry_mut(answer) == Bool(BitAnd(BitAnd(answer, 255), 31) > 15)

\* last8 = answer & 0xff; cleaned = last8 & 0b00011111; return cleaned > 0xff
auxcarry(answer) == Bool(BitAnd(BitAnd(answer, 255), 31) > 255)

auxcarry32(answer) == auxcarry(BitAnd(answer, 65535))

\* flagstoset is a uint8_t bit mask; answer is a uint16_t
set_flags(st, answer, flagstoset) ==
    LET cleaned == BitAnd(U8(flagstoset), 248)
        cc == st.cc
    IN [st EXCEPT !.cc =
          [z  |-> IF BitAnd(cleaned, SET_Z_FLAG) # 0 THEN zero(answer) ELSE cc.z,
           s  |-> IF BitAnd(cleaned, SET_S_FLAG) # 0 THEN sign(answer) ELSE cc.s,
           p  |-> IF BitAnd(cleaned, SET_P_FLAG) # 0 THEN parity(answer) ELSE cc.p,
           cy |-> IF BitAnd(cleaned, SET_CY_FLAG) # 0 THEN carry(answer) ELSE cc.cy,
           ac |-> IF BitAnd(cleaned, SET_AC_FLAG) # 0 THEN auxcarry(answer) ELSE cc.ac]]

\* answer is a uint32_t; left and right are its 16-bit halves
set_flags32(st, answer, flagstoset) ==
    LET cleaned == BitAnd(U8(flagstoset), 248)
        left == answer \div 65536
        right == BitAnd(answer, 65535)
        cc == st.cc
    IN [st EXCEPT !.cc =
          [z  |-> IF BitAnd(cleaned, SET_Z_FLAG) # 0
                  THEN Bool(BitOr(zero(left), zero(right)) = 0) ELSE cc.z,
           s  |-> IF BitAnd(cleaned, SET_S_FLAG) # 0 THEN sign32(answer) ELSE cc.s,
           p  |-> IF BitAnd(cleaned, SET_P_FLAG) # 0
                  THEN Bool(BitXor(parity(left), parity(right)) = 0) ELSE cc.p,
           cy |-> IF BitAnd(cleaned, SET_CY_FLAG) # 0 THEN carry32(answer) ELSE cc.cy,
           ac |-> IF BitAnd(cleaned, SET_AC_FLAG) # 0 THEN auxcarry32(answer) ELSE cc.ac]]

(***************************************************************************)
(* Pointers.  The C code hands registers and memory cells to its helpers   *)
(* as uint8_t pointers; here a pointer is <<"reg", field>> or              *)
(* <<"mem", index>>.                                                       *)
(***************************************************************************)
RegPtr(r) == <<"reg", r>>

MemPtr(i) == <<"mem", i>>

WriteMem(mem, i, v) == [j \in (DOMAIN mem) \cup {i} |-> IF j = i THEN v ELSE mem[j]]

Deref(st, ptr) == IF ptr[1] = "reg" THEN st[ptr[2]] ELSE st.memory[ptr[2]]

Store(st, ptr, v) ==
    IF ptr[1] = "reg" THEN [st EXCEPT ![ptr[2]] = v]
    ELSE [st EXCEPT !.memory = WriteMem(@, ptr[2], v)]

(***************************************************************************)
(* The fatal path.                                                         *)
(***************************************************************************)
\* what a case of the switch hands back: the state, whether exit(1) was
\* called, and what the fatal path printed, one entry per printf call with
\* its format string and its arguments
Ret(st) == [st |-> st, exited |-> FALSE, report |-> <<>>]

\* unimplemented_instr without its exit(1)
unimplemented_instr_mut(st) ==
    [st |-> st, exited |-> FALSE,
     report |-> << [fmt |-> "Error: Unimplemented instruction", args |-> <<>>] >>]

unimplemented_instr(st) ==
    [st |-> st, exited |-> TRUE,
     report |-> << [fmt |-> "Error: Unimplemented instruction", args |-> <<>>] >>]

unused_opcode(st) ==
    LET opcode == st.memory[st.pc]
    IN [st |-> st, exited |-> TRUE,
        report |-> << [fmt |-> "Error: unused opcode 0x%x", args |-> <<opcode>>] >>]

(***************************************************************************)
(* 8-bit arithmetic and logic on the accumulator.                          *)
(***************************************************************************)
add_x(st, x) ==
    LET answer == U16(st.a + x)
    IN [set_flags(st, answer, SET_ALL_FLAGS) EXCEPT !.a = BitAnd(answer, 255)]

adc_x(st, x) ==
    LET answer == U16(st.a + st.cc.cy + x)
    IN [set_flags(st, answer, SET_ALL_FLAGS) EXCEPT !.a = BitAnd(answer, 255)]

\* sub_x that also takes the carry off, as sbb_x does
sub_x_mut(st, x) ==
    LET answer == U16(st.a - x - st.cc.cy)
    IN [set_flags(st, answer, SET_ALL_FLAGS) EXCEPT !.a = BitAnd(answer, 255)]

sub_x(st, x) ==
    LET answer == U16(st.a - x)
    IN [set_flags(st, answer, SET_ALL_FLAGS) EXCEPT !.a = BitAnd(answer, 255)]

\* sbb_x leaving the Carry out of the subtraction
sbb_x_mut(st, x) ==
    LET answer == U16(st.a - x)
    IN [set_flags(st, answer, SET_ALL_FLAGS) EXCEPT !.a = BitAnd(answer, 255)]

sbb_x(st, x) ==
    LET answer == U16(st.a - x - st.cc.cy)
    IN [set_flags(st, answer, SET_ALL_FLAGS) EXCEPT !.a = BitAnd(answer, 255)]

ana_x(st, x) ==
    LET answer == BitAnd(st.a, x)
    IN [set_flags(st, answer, SET_ALL_FLAGS) EXCEPT !.a = BitAnd(answer, 255)]

\* xra_x with a flag mask that leaves Carry out
xra_x_mut(st, x) ==
    LET answer == BitXor(st.a, x)
        flags == U8(SET_Z_FLAG + SET_S_FLAG + SET_P_FLAG + SET_AC_FLAG)
    IN [set_flags(st, answer, flags) EXCEPT !.a = BitAnd(answer, 255)]

xra_x(st, x) ==
    LET answer == BitXor(st.a, x)
    IN [set_flags(st, answer, SET_ALL_FLAGS) EXCEPT !.a = BitAnd(answer, 255)]

ora_x(st, x) ==
    LET answer == BitOr(st.a, x)
    IN [set_flags(st, answer, SET_ALL_FLAGS) EXCEPT !.a = BitAnd(answer, 255)]

(***************************************************************************)
(* Register pairs.                                                         *)
(***************************************************************************)
\* result = (left << 8) | right, as a uint16_t
get16bitval(left, right) == U16(BitOr(left * 256, right))

\* hands back the state with the pair written and the uint32_t result (the
\* sum of two uint16_t, so it never wraps)
tworeg_add(st, left_ptr, right_ptr, val) ==
    LET summand == get16bitval(Deref(st, left_ptr), Deref(st, right_ptr))
        result == summand + U16(val)
        st1 == Store(st, left_ptr, U8(result \div 256))
    IN [st |-> Store(st1, right_ptr, BitAnd(result, 255)), result |-> result]

\* inr_x setting every flag, Carry included
inr_x_mut(st, ptr) ==
    LET answer == U16(Deref(st, ptr) + 1)
    IN Store(set_flags(st, answer, SET_ALL_FLAGS), ptr, BitAnd(answer, 255))

inr_x(st, ptr) ==
    LET answer == U16(Deref(st, ptr) + 1)
        flags == U8(SET_Z_FLAG + SET_S_FLAG + SET_P_FLAG + SET_AC_FLAG)
    IN Store(set_flags(st, answer, flags), ptr, BitAnd(answer, 255))

\* dcr_x with a flag mask that leaves Parity out
dcr_x_mut(st, ptr) ==
    LET answer == U16(Deref(st, ptr) - 1)
        flags == U8(SET_Z_FLAG + SET_S_FLAG + SET_AC_FLAG)
    IN Store(set_flags(st, answer, flags), ptr, BitAnd(answer, 255))

dcr_x(st, ptr) ==
    LET answer == U16(Deref(st, ptr) - 1)
        flags == U8(SET_Z_FLAG + SET_S_FLAG + SET_P_FLAG + SET_AC_FLAG)
    IN Store(set_flags(st, answer, flags), ptr, BitAnd(answer, 255))

inx_xy(st, left_ptr, right_ptr) == tworeg_add(st, left_ptr, right_ptr, 1).st

\* dcx_xy decrementing the low byte alone, with no borrow from the high byte
dcx_xy_mut(st, left_ptr, right_ptr) == Store(st, right_ptr, U8(Deref(st, right_ptr) - 1))

dcx_xy(st, left_ptr, right_ptr) == tworeg_add(st, left_ptr, right_ptr, -1).st

\* dad_xy taking Carry from the 8-bit test carry()
dad_xy_mut(st, x, y) ==
    LET val_to_add == get16bitval(Deref(st, x), Deref(st, y))
        r == tworeg_add(st, RegPtr("h"), RegPtr("l"), val_to_add)
    IN [r.st EXCEPT !.cc.cy = carry(r.result)]

dad_xy(st, x, y) ==
    LET val_to_add == get16bitval(Deref(st, x), Deref(st, y))
        r == tworeg_add(st, RegPtr("h"), RegPtr("l"), val_to_add)
    IN [r.st EXCEPT !.cc.cy = Bool(r.result > 65535)]

read_addr(st, lptr, rptr) == get16bitval(Deref(st, lptr), Deref(st, rptr))

read_hl_addr(st) == read_addr(st, RegPtr("h"), RegPtr("l"))

read_hl(st) == st.memory[read_hl_addr(st)]

\* set_hl taking L for the high byte of the address and H for the low byte
set_hl_mut(st, val) ==
    [st EXCEPT !.memory = WriteMem(@, get16bitval(st.l, st.h), val)]

set_hl(st, val) == [st EXCEPT !.memory = WriteMem(@, read_hl_addr(st), val)]

(***************************************************************************)
(* emulate_op: the switch on the opcode at PC, one operator per family of  *)
(* cases.  opcode[i] in the C code is memory[pc + i].                      *)
(***************************************************************************)
Opcode(st) == st.memory[st.pc]

Byte2(st) == st.memory[st.pc + 1]

Byte3(st) == st.memory[st.pc + 2]

\* the register operand that the three low bits of an opcode (or bits 3..5)
\* select in the case labels: B, C, D, E, H, L, M, A
RegOf(i) == <<"b", "c", "d", "e", "h", "l", "m", "a">>[i + 1]

\* cases 0x01, 0x11, 0x21: LXI B / D / H
op_lxi(st, hi, lo) ==
    [st EXCEPT ![lo] = Byte2(st), ![hi] = Byte3(st), !.pc = U16(@ + 2)]

\* case 0x31: LXI SP
op_lxi_sp(st) ==
    [st EXCEPT !.sp = U16(BitOr(Byte3(st) * 256, Byte2(st))), !.pc = U16(@ + 2)]

\* cases 0x02, 0x12: STAX B / D
op_stax(st, hi, lo) ==
    LET offset == read_addr(st, RegPtr(hi), RegPtr(lo))
    IN [st EXCEPT !.memory = WriteMem(@, offset, st.a)]

\* cases 0x0a, 0x1a: LDAX B / D
op_ldax(st, hi, lo) ==
    LET offset == read_addr(st, RegPtr(hi), RegPtr(lo))
    IN [st EXCEPT !.a = st.memory[offset]]

\* cases 0x04 .. 0x3c: INR r, INR M
op_inr(st, r) ==
    IF r = "m" THEN inr_x(st, MemPtr(read_hl_addr(st))) ELSE inr_x(st, RegPtr(r))

\* cases 0x05 .. 0x3d: DCR r, DCR M
op_dcr(st, r) ==
    IF r = "m" THEN dcr_x(st, MemPtr(read_hl_addr(st))) ELSE dcr_x(st, RegPtr(r))

\* cases 0x06 .. 0x3e: MVI r, MVI M
op_mvi(st, r) ==
    IF r = "m"
    THEN [st EXCEPT !.memory = WriteMem(@, read_hl_addr(st), Byte2(st)),
                    !.pc = U16(@ + 1)]
    ELSE [st EXCEPT ![r] = Byte2(st), !.pc = U16(@ + 1)]

\* case 0x07: RLC
\* RLC filling bit 0 with the old Carry, as RAL does
op_rlc_mut(st) ==
    LET leftmost == st.a \div 128
    IN [st EXCEPT !.cc.cy = leftmost, !.a = U8(BitOr(st.a * 2, st.cc.cy))]

op_rlc(st) ==
    LET leftmost == st.a \div 128
    IN [st EXCEPT !.cc.cy = leftmost, !.a = U8(BitOr(st.a * 2, leftmost))]

\* case 0x0f: RRC
op_rrc(st) ==
    LET rightmost == BitAnd(st.a, 1)
    IN [st EXCEPT !.cc.cy = rightmost, !.a = U8(BitOr(st.a \div 2, rightmost * 128))]

\* case 0x17: RAL
op_ral(st) ==
    LET leftmost == st.a \div 128
        prev_cy == st.cc.cy
    IN [st EXCEPT !.cc.cy = leftmost, !.a = U8(BitOr(st.a * 2, prev_cy))]

\* RAR taking the high bit from the bit shifted out, as RRC does
op_rar_mut(st) ==
    LET rightmost == BitAnd(st.a, 1)
    IN [st EXCEPT !.cc.cy = rightmost, !.a = U8(BitOr(st.a \div 2, rightmost * 128))]

\* case 0x1f: RAR
op_rar(st) ==
    LET rightmost == BitAnd(st.a, 1)
        prev_cy == st.cc.cy
    IN [st EXCEPT !.cc.cy = rightmost, !.a = U8(BitOr(st.a \div 2, prev_cy * 128))]

\* case 0x22: SHLD adr
op_shld(st) ==
    LET addr == get16bitval(Byte2(st), Byte3(st))
    IN [st EXCEPT !.memory = WriteMem(WriteMem(@, addr, st.l), addr + 1, st.h),
                  !.pc = U16(@ + 2)]

\* case 0x2a: LHLD adr
op_lhld(st) ==
    LET addr == get16bitval(Byte2(st), Byte3(st))
    IN [st EXCEPT !.l = st.memory[addr], !.h = st.memory[addr + 1], !.pc = U16(@ + 2)]

\* case 0x32: STA adr
op_sta(st) ==
    LET addr == get16bitval(Byte2(st), Byte3(st))
    IN [st EXCEPT !.memory = WriteMem(@, addr, st.a), !.pc = U16(@ + 2)]

\* case 0x3a: LDA adr
op_lda(st) ==
    LET addr == get16bitval(Byte2(st), Byte3(st))
    IN [st EXCEPT !.a = st.memory[addr], !.pc = U16(@ + 2)]

\* DAA adjusting a nibble already at 9 (>= 9 in place of > 9)
op_daa_mut(st) ==
    LET least4 == BitAnd(st.a, 15)
        st1 == IF least4 >= 9 \/ st.cc.ac # 0
               THEN LET answer == U16(st.a + 6)
                    IN [set_flags(st, answer, SET_ALL_FLAGS) EXCEPT !.a = BitAnd(answer, 255)]
               ELSE st
        most4 == st1.a \div 16
        most4b == IF most4 >= 9 \/ st1.cc.cy # 0 THEN U8(most4 + 6) ELSE most4
        answer2 == U16(BitOr(most4b * 16, least4))
    IN [set_flags(st1, answer2, SET_ALL_FLAGS) EXCEPT !.a = BitAnd(answer2, 255)]

\* case 0x27: DAA
op_daa(st) ==
    LET least4 == BitAnd(st.a, 15)
        st1 == IF least4 > 9 \/ st.cc.ac # 0
               THEN LET answer == U16(st.a + 6)
                    IN [set_flags(st, answer, SET_ALL_FLAGS) EXCEPT !.a = BitAnd(answer, 255)]
               ELSE st
        most4 == st1.a \div 16
        most4b == IF most4 > 9 \/ st1.cc.cy # 0 THEN U8(most4 + 6) ELSE most4
        answer2 == U16(BitOr(most4b * 16, least4))
    IN [set_flags(st1, answer2, SET_ALL_FLAGS) EXCEPT !.a = BitAnd(answer2, 255)]

\* case 0x2f: CMA
op_cma(st) == [st EXCEPT !.a = U8(-1 - st.a)]

\* case 0x37: STC
op_stc(st) == [st EXCEPT !.cc.cy = 1]

\* CMC with cy a whole uint8_t: ~cy keeps all eight bits
op_cmc_mut(st) == [st EXCEPT !.cc.cy = (-1 - st.cc.cy) % 256]

\* case 0x3f: CMC; cy is a 1-bit field, so ~cy keeps its low bit only
op_cmc(st) == [st EXCEPT !.cc.cy = (-1 - st.cc.cy) % 2]

\* case 0x33: INX SP
op_inx_sp(st) == [st EXCEPT !.sp = U16(st.sp + 1)]

\* case 0x3b: DCX SP
op_dcx_sp(st) == [st EXCEPT !.sp = U16(st.sp - 1)]

\* case 0x39: DAD SP
op_dad_sp(st) ==
    LET r == tworeg_add(st, RegPtr("h"), RegPtr("l"), st.sp)
    IN [r.st EXCEPT !.cc.cy = Bool(r.result > 65535)]

\* cases 0x40 .. 0x7f but 0x76: MOV dst, src
\* MOV between registers always copying the accumulator
op_mov_mut(st, dst, src) ==
    IF dst = "m" THEN set_hl(st, st[src])
    ELSE IF src = "m" THEN [st EXCEPT ![dst] = read_hl(st)]
    ELSE [st EXCEPT ![dst] = st.a]

op_mov(st, dst, src) ==
    IF dst = "m" THEN set_hl(st, st[src])
    ELSE IF src = "m" THEN [st EXCEPT ![dst] = read_hl(st)]
    ELSE [st EXCEPT ![dst] = st[src]]

\* the operand of the cases 0x80 .. 0xb7
Operand(st, r) == IF r = "m" THEN read_hl(st) ELSE st[r]

\* cases 0x80 .. 0xb7; case 0x8e has no break and runs into case 0x8f
op_alu(st, opcode) ==
    LET f == (opcode - 128) \div 8
        x == Operand(st, RegOf(opcode % 8))
    IN IF opcode = 142 THEN LET st1 == adc_x(st, x) IN adc_x(st1, st1.a)
       ELSE CASE f = 0 -> add_x(st, x)
              [] f = 1 -> adc_x(st, x)
              [] f = 2 -> sub_x(st, x)
              [] f = 3 -> sbb_x(st, x)
              [] f = 4 -> ana_x(st, x)
              [] f = 5 -> xra_x(st, x)
              [] f = 6 -> ora_x(st, x)

\* case 0xc2: JNZ adr
op_jnz(st) ==
    IF st.cc.z = 0
    THEN [st EXCEPT !.pc = U16(BitOr(Byte3(st) * 256, Byte2(st)))]
    ELSE [st EXCEPT !.pc = U16(@ + 2)]

\* case 0xc3: JMP adr
op_jmp(st) == [st EXCEPT !.pc = U16(BitOr(Byte3(st) * 256, Byte2(st)))]

\* case 0xc6: ADI D8 (the answer is not stored)
op_adi(st) ==
    LET answer == U16(st.a + Byte2(st))
    IN [set_flags(st, answer, SET_ALL_FLAGS) EXCEPT !.pc = U16(@ + 1)]

\* case 0xce: ACI D8
op_aci(st) ==
    LET answer == U16(st.a + Byte2(st) + st.cc.cy)
    IN [set_flags(st, answer, SET_ALL_FLAGS) EXCEPT
          !.a = BitAnd(answer, 255), !.pc = U16(@ + 1)]

\* case 0xd6: SUI D8
op_sui(st) ==
    LET answer == U16(st.a - Byte2(st))
    IN [set_flags(st, answer, SET_ALL_FLAGS) EXCEPT
          !.a = BitAnd(answer, 255), !.pc = U16(@ + 1)]

\* case 0xe6: ANI D8
op_ani(st) ==
    LET answer == BitAnd(st.a, Byte2(st))
    IN [set_flags(st, answer, SET_ALL_FLAGS) EXCEPT
          !.a = BitAnd(answer, 255), !.pc = U16(@ + 1)]

\* case 0xf6: ORI D8
op_ori(st) ==
    LET answer == BitOr(st.a, Byte2(st))
    IN [set_flags(st, answer, SET_ALL_FLAGS) EXCEPT
          !.a = BitAnd(answer, 255), !.pc = U16(@ + 1)]

\* the case labels that call unused_opcode
UnusedOpcodes == {8, 16, 24, 32, 40, 48, 56}

\* the case labels that call unimplemented_instr
UnimplementedOpcodes == {118} \cup ((184 .. 255) \ {194, 195, 198, 206, 214, 230, 246})

\* the switch statement of emulate_op
op_switch(st) ==
    LET opcode == Opcode(st)
        hi == <<"b", "d", "h">>[(opcode \div 16) + 1]
        lo == <<"c", "e", "l">>[(opcode \div 16) + 1]
    IN CASE opcode \in UnusedOpcodes -> unused_opcode(st)
         [] opcode \in UnimplementedOpcodes -> unimplemented_instr(st)
         [] opcode = 0 -> Ret(st)
         [] opcode \in {1, 17, 33} -> Ret(op_lxi(st, hi, lo))
         [] opcode = 49 -> Ret(op_lxi_sp(st))
         [] opcode \in {2, 18} -> Ret(op_stax(st, hi, lo))
         [] opcode \in {10, 26} -> Ret(op_ldax(st, hi, lo))
         [] opcode \in {3, 19, 35} -> Ret(inx_xy(st, RegPtr(hi), RegPtr(lo)))
         [] opcode = 51 -> Ret(op_inx_sp(st))
         [] opcode \in {11, 27, 43} -> Ret(dcx_xy(st, RegPtr(hi), RegPtr(lo)))
         [] opcode = 59 -> Ret(op_dcx_sp(st))
         [] opcode \in {9, 25, 41} -> Ret(dad_xy(st, RegPtr(hi), RegPtr(lo)))
         [] opcode = 57 -> Ret(op_dad_sp(st))
         [] opcode < 64 /\ opcode % 8 = 4 -> Ret(op_inr(st, RegOf(opcode \div 8)))
         [] opcode < 64 /\ opcode % 8 = 5 -> Ret(op_dcr(st, RegOf(opcode \div 8)))
         [] opcode < 64 /\ opcode % 8 = 6 -> Ret(op_mvi(st, RegOf(opcode \div 8)))
         [] opcode = 7 -> Ret(op_rlc(st))
         [] opcode = 15 -> Ret(op_rrc(st))
         [] opcode = 23 -> Ret(op_ral(st))
         [] opcode = 31 -> Ret(op_rar(st))
         [] opcode = 34 -> Ret(op_shld(st))
         [] opcode = 42 -> Ret(op_lhld(st))
         [] opcode = 50 -> Ret(op_sta(st))
         [] opcode = 58 -> Ret(op_lda(st))
         [] opcode = 39 -> Ret(op_daa(st))
         [] opcode = 47 -> Ret(op_cma(st))
         [] opcode = 55 -> Ret(op_stc(st))
         [] opcode = 63 -> Ret(op_cmc(st))
         [] opcode \in (64 .. 127) \ {118} ->
              Ret(op_mov(st, RegOf((opcode - 64) \div 8), RegOf(opcode % 8)))
         [] opcode \in 128 .. 183 -> Ret(op_alu(st, opcode))
         [] opcode = 194 -> Ret(op_jnz(st))
         [] opcode = 195 -> Ret(op_jmp(st))
         [] opcode = 198 -> Ret(op_adi(st))
         [] opcode = 206 -> Ret(op_aci(st))
         [] opcode = 214 -> Ret(op_sui(st))
         [] opcode = 230 -> Ret(op_ani(st))
         [] opcode = 246 -> Ret(op_ori(st))

\* the switch with no pc += 1 after it
advance_pc_mut(st) == st

\* state->pc += 1 after the switch
advance_pc(st) == [st EXCEPT !.pc = U16(@ + 1)]

emulate_op(st) ==
    LET r == op_switch(st)
    IN IF r.exited THEN r ELSE [r EXCEPT !.st = advance_pc(r.st)]

(***************************************************************************)
(* The memory cells one call of emulate_op touches.                        *)
(***************************************************************************)
\* the indices opcode[1], opcode[2] that the case of the opcode at PC reads
OperandAddrs(st) ==
    LET opcode == Opcode(st)
    IN IF opcode \in {1, 17, 33, 49, 34, 42, 50, 58, 195} \/ (opcode = 194 /\ st.cc.z = 0)
       THEN {st.pc + 1, st.pc + 2}
       ELSE IF (opcode < 64 /\ opcode % 8 = 6) \/ opcode \in {198, 206, 214, 230, 246}
       THEN {st.pc + 1}
       ELSE {}

\* the indices the case reads through a register pair or a direct address
DataReadAddrs(st) ==
    LET opcode == Opcode(st)
        addr == get16bitval(Byte2(st), Byte3(st))
    IN CASE opcode = 10 -> {read_addr(st, RegPtr("b"), RegPtr("c"))}
         [] opcode = 26 -> {read_addr(st, RegPtr("d"), RegPtr("e"))}
         [] opcode \in {52, 53} -> {read_hl_addr(st)}
         [] opcode \in (64 .. 127) \ {118} /\ opcode % 8 = 6 -> {read_hl_addr(st)}
         [] opcode \in 128 .. 183 /\ opcode % 8 = 6 -> {read_hl_addr(st)}
         [] opcode = 42 -> {addr, addr + 1}
         [] opcode = 58 -> {addr}
         [] OTHER -> {}

\* the indices the case writes
DataWriteAddrs(st) ==
    LET opcode == Opcode(st)
        addr == get16bitval(Byte2(st), Byte3(st))
    IN CASE opcode = 2 -> {read_addr(st, RegPtr("b"), RegPtr("c"))}
         [] opcode = 18 -> {read_addr(st, RegPtr("d"), RegPtr("e"))}
         [] opcode \in {52, 53, 54} -> {read_hl_addr(st)}
         [] opcode \in (112 .. 119) \ {118} -> {read_hl_addr(st)}
         [] opcode = 34 -> {addr, addr + 1}
         [] opcode = 50 -> {addr}
         [] OTHER -> {}

Accesses(st) ==
    {st.pc} \cup OperandAddrs(st) \cup DataReadAddrs(st) \cup DataWriteAddrs(st)

\* the states that give the unknown cells among addrs a value from vals
Reveal(st, addrs, vals) ==
    { [st EXCEPT !.memory = f @@ @] : f \in [addrs \ DOMAIN st.memory -> vals] }

\* the states in which every cell the next instruction reads is known: the
\* opcode byte, then its operand bytes, then the data it loads
Revealed(st, ops, datas) ==
    UNION { UNION { Reveal(s2, DataReadAddrs(s2), datas)
                    : s2 \in Reveal(s1, OperandAddrs(s1), datas) }
            : s1 \in Reveal(st, {st.pc}, ops) }

(***************************************************************************)
(* The driver (emu.c).                                                     *)
(***************************************************************************)
IsDigit(ch) == ch \in {"0", "1", "2", "3", "4", "5", "6", "7", "8", "9"}

DigitVal(ch) == CHOOSE n \in 0 .. 9 : <<"0", "1", "2", "3", "4", "5", "6", "7", "8", "9">>[n + 1] = ch

\* the value of the leading digits of input from position i on
RECURSIVE atoi_digits(_, _, _)
atoi_digits(input, i, n) ==
    IF i > Len(input) \/ ~IsDigit(input[i]) THEN n
    ELSE atoi_digits(input, i + 1, n * 10 + DigitVal(input[i]))

RECURSIVE atoi_from(_, _)
atoi_from(input, i) ==
    IF i > Len(input) THEN 0
    ELSE IF input[i] \in {" ", "\t", "\n"} THEN atoi_from(input, i + 1)
    ELSE IF input[i] = "-" THEN 0 - atoi_digits(input, i + 1, 0)
    ELSE IF input[i] = "+" THEN atoi_digits(input, i + 1, 0)
    ELSE atoi_digits(input, i, 0)

atoi(input) == atoi_from(input, 1)

\* input is the line fgets stored, a sequence of characters; the int that
\* atoi returns becomes a size_t, so a negative one is above MAX_STEPS
\* get_num_instrs without the clip to MAX_STEPS
get_num_instrs_mut(input) ==
    IF Len(input) = 1 THEN 1 ELSE atoi(input)

get_num_instrs(input) ==
    IF Len(input) = 1 THEN 1
    ELSE LET n == atoi(input)
         IN IF n >= 0 /\ n < MAX_STEPS THEN n ELSE MAX_STEPS

\* the registers and flags as load_and_run sets them; no memory cell is
\* known yet
state0 ==
    [a |-> 0, b |-> 0, c |-> 0, d |-> 0, e |-> 0, h |-> 0, l |-> 0,
     sp |-> 0, pc |-> 0, memory |-> <<>>,
     cc |-> [z |-> 0, s |-> 0, p |-> 0, cy |-> 0, ac |-> 0],
     int_enable |-> 0]

\* the opcode bytes the image is drawn from: every family of cases, the
\* fall-through case 0x8e, and the three kinds of fatal opcode
ImageOpcodes ==
    {0, 6, 33, 62, 4, 5, 35, 41, 23, 31, 39, 55, 63, 34, 42, 50, 58, 54,
     71, 119, 126, 128, 142, 144, 175, 194, 195, 198, 214, 8, 118, 255}

\* the operand and data bytes the image is drawn from
ImageData == {0, 128}

\* the sizes of the image file
FileSizes == {0, 1, 3, MemSize}

\* the lines the user types at the prompt
Inputs == { <<"\n">>, <<"0", "\n">>, <<"2", "\n">> }

\* asked records the last line fgets returned and the value of instr_count
\* at that prompt; before the first prompt there is none.  Only the
\* specification of the prompt (SpecPrompt) keeps it.
NoPrompt == [input |-> <<>>, at |-> 0]

Init ==
    /\ state = state0
    /\ fsize \in FileSizes
    /\ instr_count = 0
    /\ instrs_to_advance = 0
    /\ loc = "loop"
    /\ hist = <<>>
    /\ report = <<>>
    /\ asked = NoPrompt

\* emulate_op(&state); instr_count++; instrs_to_advance--; where ita is the
\* value of instrs_to_advance at the call.  An access outside the allocated
\* memory is undefined: the process may die there, or go on with whatever
\* lies behind the buffer.
Dispatch(ops, datas, ita) ==
    \E pre \in Revealed(state, ops, datas) :
        LET acc == Accesses(pre)
            r == emulate_op(pre)
        IN /\ hist' = Append(hist, [st |-> pre, acc |-> acc])
           /\ fsize' = fsize
           /\ \/ /\ \E i \in acc : i >= MemSize
                 /\ loc' = "crashed"
                 /\ state' = pre
                 /\ instrs_to_advance' = ita
                 /\ UNCHANGED <<instr_count, report>>
              \/ /\ r.exited
                 /\ loc' = "fatal"
                 /\ state' = r.st
                 /\ report' = r.report
                 /\ instrs_to_advance' = ita
                 /\ UNCHANGED instr_count
              \/ /\ ~r.exited
                 /\ loc' = loc
                 /\ state' = r.st
                 /\ instr_count' = instr_count + 1
                 /\ instrs_to_advance' = ita - 1
                 /\ UNCHANGED report

\* one iteration of while (state.pc < fsize) that asks the user
Prompt ==
    /\ loc = "loop"
    /\ state.pc < fsize
    /\ instr_count < MaxSteps
    /\ instrs_to_advance = 0
    /\ \E input \in Inputs :
         LET n == get_num_instrs(input)
         IN IF n = 0
            THEN UNCHANGED vars
            ELSE Dispatch(ImageOpcodes, ImageData, n) /\ UNCHANGED asked

\* an iteration that does not ask, in a loop that tests its condition after
\* the body only
Advance_mut ==
    /\ loc = "loop"
    /\ instr_count < MaxSteps
    /\ instrs_to_advance > 0
    /\ Dispatch(ImageOpcodes, ImageData, instrs_to_advance)
    /\ UNCHANGED asked

\* one iteration that does not ask
Advance ==
    /\ loc = "loop"
    /\ state.pc < fsize
    /\ instr_count < MaxSteps
    /\ instrs_to_advance > 0
    /\ Dispatch(ImageOpcodes, ImageData, instrs_to_advance)
    /\ UNCHANGED asked

\* the loop condition fails
LoopExit ==
    /\ loc = "loop"
    /\ state.pc >= fsize
    /\ loc' = "exited"
    /\ UNCHANGED <<state, fsize, instr_count, instrs_to_advance, hist, report, asked>>

Next == Prompt \/ Advance \/ LoopExit

Spec == Init /\ [][Next]_vars

\* the loop is sequential code: once its condition is false nothing stands
\* between the test and the statements after the loop
SpecLive == Spec /\ WF_vars(LoopExit)

(***************************************************************************)
(* One instruction from a state in the middle of a run.  The registers, SP *)
(* and PC hold what MVI, LXI and a jump can leave there; Z, S and P are    *)
(* those of some 8-bit result, CY is either value (STC, CMC) and AC is the *)
(* 0 it starts as.                                                         *)
(***************************************************************************)
AllOpcodes == 0 .. 255

\* the values of the accumulator
AVals == {0, 1, 9, 15, 25, 127, 128, 153, 155, 255}

\* the values of B, C, D, E, H, L and SP
RegFiles ==
    { [b |-> 0, c |-> 0, d |-> 0, e |-> 0, h |-> 0, l |-> 0, sp |-> 0],
      [b |-> 1, c |-> 2, d |-> 3, e |-> 4, h |-> 5, l |-> 6, sp |-> 7],
      [b |-> 255, c |-> 255, d |-> 128, e |-> 0, h |-> 128, l |-> 1, sp |-> 65535],
      [b |-> 155, c |-> 16, d |-> 0, e |-> 255, h |-> 127, l |-> 255, sp |-> 32768] }

\* the results the flags Z, S, P are those of
FlagSeeds == {0, 1, 128}

MidFlags ==
    {state0.cc} \cup
    { [set_flags(state0, r, SET_ALL_FLAGS).cc EXCEPT !.cy = cy] : r \in FlagSeeds, cy \in {0, 1} }

\* the values of PC
MidPCs == {0, 256}

\* the operand and data bytes
MidData == {0, 1, 155}

MidStates ==
    { [state0 EXCEPT !.a = a, !.b = rf.b, !.c = rf.c, !.d = rf.d, !.e = rf.e,
                     !.h = rf.h, !.l = rf.l, !.sp = rf.sp, !.pc = pc, !.cc = cc]
      : a \in AVals, rf \in RegFiles, pc \in MidPCs, cc \in MidFlags }

InitStep ==
    /\ state \in MidStates
    /\ fsize = MemSize
    /\ instr_count = 0
    /\ instrs_to_advance = 1
    /\ loc = "loop"
    /\ hist = <<>>
    /\ report = <<>>
    /\ asked = NoPrompt

\* the iteration that dispatches the instruction at PC, any opcode
StepOnce ==
    /\ loc = "loop"
    /\ state.pc < fsize
    /\ instr_count = 0
    /\ instrs_to_advance > 0
    /\ Dispatch(AllOpcodes, MidData, instrs_to_advance)
    /\ UNCHANGED asked

NextStep == StepOnce

SpecStep == InitStep /\ [][NextStep]_vars

(***************************************************************************)
(* Two instructions in a row from a state in the middle of a run, for the  *)
(* laws about an operation and its inverse.                                *)
(***************************************************************************)
\* ADD r, SUB r, RAL, RAR, INX, DCX
PairOpcodes ==
    (128 .. 135) \cup (144 .. 151) \cup {23, 31} \cup {3, 19, 35, 51} \cup {11, 27, 43, 59}

\* the states the pairs start from: PC = 0, every accumulator and register
\* file, both values of CY
PairStates == { st \in MidStates : st.pc = 0 /\ st.cc.z = 0 /\ st.cc.s = 0 }

InitPair ==
    /\ state \in PairStates
    /\ fsize = MemSize
    /\ instr_count = 0
    /\ instrs_to_advance = 2
    /\ loc = "loop"
    /\ hist = <<>>
    /\ report = <<>>
    /\ asked = NoPrompt

StepPair ==
    /\ loc = "loop"
    /\ state.pc < fsize
    /\ instrs_to_advance > 0
    /\ Dispatch(PairOpcodes, MidData, instrs_to_advance)
    /\ UNCHANGED asked

NextPair == StepPair

SpecPair == InitPair /\ [][NextPair]_vars

(***************************************************************************)
(* The prompt of the run loop.  The same loop over a small image alphabet  *)
(* (NOP, JMP, HLT) and more input lines, with asked recording each line    *)
(* fgets returned.                                                         *)
(***************************************************************************)
MaxPromptSteps == 4

PromptOpcodes == {0, 195, 118}

PromptData == {0}

PromptFileSizes == {1, 3, MemSize}

\* enter alone, one character with no newline, two lines that parse to 0,
\* two small counts and a count above MAX_STEPS
PromptInputs ==
    { <<"\n">>, <<"5">>, <<"0", "\n">>, <<"x", "\n">>, <<"2", "\n">>,
      <<"3", "\n">>, <<"9", "9", "9", "9", "9", "9", "\n">> }

InitPrompt ==
    /\ state = state0
    /\ fsize \in PromptFileSizes
    /\ instr_count = 0
    /\ instrs_to_advance = 0
    /\ loc = "loop"
    /\ hist = <<>>
    /\ report = <<>>
    /\ asked = NoPrompt

\* one iteration that asks
AskPrompt ==
    /\ loc = "loop"
    /\ state.pc < fsize
    /\ instr_count < MaxPromptSteps
    /\ instrs_to_advance = 0
    /\ \E input \in PromptInputs :
         LET n == get_num_instrs(input)
         IN /\ asked' = [input |-> input, at |-> instr_count]
            /\ IF n = 0
               THEN UNCHANGED <<state, fsize, instr_count, instrs_to_advance,
                                loc, hist, report>>
               ELSE Dispatch(PromptOpcodes, PromptData, n)

\* one iteration that does not ask
AdvancePrompt ==
    /\ loc = "loop"
    /\ state.pc < fsize
    /\ instr_count < MaxPromptSteps
    /\ instrs_to_advance > 0
    /\ Dispatch(PromptOpcodes, PromptData, instrs_to_advance)
    /\ UNCHANGED asked

NextPrompt == AskPrompt \/ AdvancePrompt \/ LoopExit

SpecPrompt == InitPrompt /\ [][NextPrompt]_vars

(***************************************************************************)
(* set_flags32 on its own.  No case of emulate_op calls it, so its         *)
(* arguments are drawn from samples: a state with any flag values, a       *)
(* 32-bit answer and a flag mask.  hist records the call.                  *)
(***************************************************************************)
Answers32 == {0, 1, 255, 256, 32768, 65535, 65536, 65537, 16777216, 16842753}

Masks32 == {SET_Z_FLAG, SET_S_FLAG + SET_P_FLAG, SET_CY_FLAG + SET_AC_FLAG, SET_ALL_FLAGS}

Flags32States ==
    { [state0 EXCEPT !.cc = cc] :
        cc \in [z : {0, 1}, s : {0, 1}, p : {0, 1}, cy : {0, 1}, ac : {0, 1}] }

InitFlags32 ==
    /\ state \in Flags32States
    /\ fsize = 0
    /\ instr_count = 0
    /\ instrs_to_advance = 0
    /\ loc = "loop"
    /\ hist = <<>>
    /\ report = <<>>
    /\ asked = NoPrompt

CallSetFlags32 ==
    /\ hist = <<>>
    /\ \E answer \in Answers32, flagstoset \in Masks32 :
           /\ state' = set_flags32(state, answer, flagstoset)
           /\ hist' = Append(hist, [st |-> state, answer |-> answer,
                                     flagstoset |-> flagstoset])
    /\ UNCHANGED <<fsize, instr_count, instrs_to_advance, loc, report, asked>>

NextFlags32 == CallSetFlags32

SpecFlags32 == InitFlags32 /\ [][NextFlags32]_vars

(***************************************************************************)
(* Properties.  hist holds, for every call of emulate_op, the state it was *)
(* called in (with the cells it read) and the indices it touched.          *)
(***************************************************************************)
Dispatched == Len(hist) > 0

Last == hist[Len(hist)]

\* the last call of emulate_op came back and the loop went on
Completed == Dispatched /\ loc \notin {"fatal", "crashed"}

LastOp == Opcode(Last.st)

\* the address the two bytes after the opcode encode, low byte first
Target(st) == Byte3(st) * 256 + Byte2(st)

\* C1: after the unconditional jump 0xC3, PC is exactly the address
\* (byte3 << 8) | byte2 that follows the opcode
C1_JmpLandsOnTarget ==
    (Completed /\ LastOp = 195) => state.pc = Target(Last.st)

\* C2: after the conditional jump 0xC2 at PC = p, PC is p + 3 when Zero was 1
\* and the decoded target (byte3 << 8) | byte2 when Zero was 0
C2_JnzTakenOrSkipped ==
    (Completed /\ LastOp = 194) =>
        IF Last.st.cc.z = 1
        THEN state.pc = Last.st.pc + 3
        ELSE state.pc = Target(Last.st)

\* the opcodes of the fatal path: the reserved ones, HLT, and those with no
\* behaviour of their own
FatalOpcodes ==
    {8, 16, 24, 32, 40, 48, 56, 118}
    \cup ((184 .. 255) \ {194, 195, 198, 206, 214, 230, 246})

\* C3: dispatching a fatal-path opcode ends the run on that step with every
\* register, flag, SP, PC and memory cell as before the step, and nothing is
\* dispatched after it
C3_FatalPathKeepsState ==
    \A i \in 1 .. Len(hist) :
        Opcode(hist[i].st) \in FatalOpcodes =>
            /\ i = Len(hist)
            /\ loc = "fatal"
            /\ state = hist[i].st

C3_Witness ==
    /\ loc = "fatal"
    /\ Len(hist) = 1
    /\ LastOp = 118
    /\ state.a = 155
    /\ state.cc.cy = 1
    /\ state.h = 128

\* what one application of the operation of opcode 0x80 .. 0xB7 gives, from
\* the accumulator a, the operand x and the carry cy
AluResult(opcode, a, x, cy) ==
    LET f == (opcode - 128) \div 8
    IN CASE f = 0 -> (a + x) % 256
         [] f = 1 -> (a + x + cy) % 256
         [] f = 2 -> (a - x) % 256
         [] f = 3 -> (a - x - cy) % 256
         [] f = 4 -> BitAnd(a, x)
         [] f = 5 -> BitXor(a, x)
         [] f = 6 -> BitOr(a, x)

\* C4: one step of ADD, ADC, SUB, SBB, ANA, XRA, ORA with a register or M
\* operand leaves in A the 8-bit result of that one operation on the A,
\* operand and Carry of before the step
C4_AluStoresOneResult ==
    (Completed /\ LastOp \in 128 .. 183) =>
        state.a = AluResult(LastOp, Last.st.a,
                            Operand(Last.st, RegOf(LastOp % 8)), Last.st.cc.cy)

\* the untruncated answer of the immediate operation on a, the byte d and
\* the carry cy
ImmAnswer(opcode, a, d, cy) ==
    CASE opcode = 198 -> a + d
      [] opcode = 206 -> a + d + cy
      [] opcode = 214 -> (a - d) % 65536
      [] opcode = 230 -> BitAnd(a, d)
      [] opcode = 246 -> BitOr(a, d)

\* C5: one step of ADI, ACI, SUI, ANI, ORI sets the flags from the result
\* and leaves the 8-bit result of the operation on A and the byte after the
\* opcode in A
C5_ImmediateStoresResult ==
    (Completed /\ LastOp \in {198, 206, 214, 230, 246}) =>
        LET answer == ImmAnswer(LastOp, Last.st.a, Byte2(Last.st), Last.st.cc.cy)
        IN /\ state.a = answer % 256
           /\ state.cc = set_flags(Last.st, answer, SET_ALL_FLAGS).cc

\* C6: STA, LDA, SHLD and LHLD use the address (byte3 << 8) | byte2: STA
\* stores A there, LDA loads A from there, SHLD stores L there and H in the
\* next cell, LHLD loads L from there and H from the next cell
C6_DirectAddressLittleEndian ==
    (Completed /\ LastOp \in {50, 58, 34, 42}) =>
        LET addr == Target(Last.st)
            known(m, i) == i \in DOMAIN m
        IN CASE LastOp = 50 ->
                  known(state.memory, addr) /\ state.memory[addr] = Last.st.a
             [] LastOp = 58 ->
                  known(Last.st.memory, addr) /\ state.a = Last.st.memory[addr]
             [] LastOp = 34 ->
                  /\ known(state.memory, addr) /\ state.memory[addr] = Last.st.l
                  /\ known(state.memory, addr + 1) /\ state.memory[addr + 1] = Last.st.h
             [] LastOp = 42 ->
                  /\ known(Last.st.memory, addr) /\ state.l = Last.st.memory[addr]
                  /\ known(Last.st.memory, addr + 1) /\ state.h = Last.st.memory[addr + 1]

\* the encoded length of the instruction with this opcode
Length(opcode) ==
    IF opcode \in {1, 17, 33, 49, 50, 58, 34, 42, 194} THEN 3
    ELSE IF opcode \in {6, 14, 22, 30, 38, 46, 54, 62, 198, 206, 214, 230, 246} THEN 2
    ELSE 1

\* C7: a step of an implemented opcode other than JMP and a taken JNZ leaves
\* PC = (PC before + length of the instruction) mod 65536
C7_PcAdvancesByLength ==
    (/\ Completed
     /\ LastOp \notin FatalOpcodes
     /\ LastOp # 195
     /\ ~(LastOp = 194 /\ Last.st.cc.z = 0)) =>
        state.pc = (Last.st.pc + Length(LastOp)) % 65536

C7_Witness ==
    /\ Completed
    /\ LastOp = 33
    /\ Last.st.pc = 256
    /\ state.pc = 259

\* C8: DAA with A = 0x9B, AC = 0, CY = 0 leaves A = 0x01 and CY = 1
C8_DaaOf9B ==
    (/\ Completed
     /\ LastOp = 39
     /\ Last.st.a = 155
     /\ Last.st.cc.ac = 0
     /\ Last.st.cc.cy = 0) =>
        (state.a = 1 /\ state.cc.cy = 1)

\* C9: every index emulate_op reads or writes memory at is below the size
\* of the allocated memory
C9_AccessesInBounds ==
    \A i \in 1 .. Len(hist) : \A x \in hist[i].acc : x < MemSize

\* C10: ADD r (r a register other than A, or M) followed at once by SUB r
\* leaves the accumulator as it was before the ADD
C10_AddThenSubRestoresA ==
    (/\ Len(hist) = 2
     /\ Completed
     /\ Opcode(hist[1].st) \in 128 .. 134
     /\ Opcode(hist[2].st) = Opcode(hist[1].st) + 16) =>
        state.a = hist[1].st.a

C10_Witness ==
    /\ Len(hist) = 2
    /\ Completed
    /\ Opcode(hist[1].st) = 128
    /\ Opcode(hist[2].st) = 144
    /\ hist[1].st.a = 155
    /\ hist[1].st.b = 255
    /\ hist[2].st.a = 154
    /\ state.a = 155

\* C11: RAL (0x17) followed at once by RAR (0x1F) leaves the accumulator and
\* Carry as they were before the RAL, whatever they were
C11_RalThenRarRestores ==
    (/\ Len(hist) = 2
     /\ Completed
     /\ Opcode(hist[1].st) = 23
     /\ Opcode(hist[2].st) = 31) =>
        /\ state.a = hist[1].st.a
        /\ state.cc.cy = hist[1].st.cc.cy

C11_Witness ==
    /\ Len(hist) = 2
    /\ Completed
    /\ Opcode(hist[1].st) = 23
    /\ Opcode(hist[2].st) = 31
    /\ hist[1].st.a = 155
    /\ hist[1].st.cc.cy = 0
    /\ hist[2].st.a = 54
    /\ hist[2].st.cc.cy = 1
    /\ state.a = 155
    /\ state.cc.cy = 0

\* the opcodes whose case sets Zero, Sign and Parity from an 8-bit result:
\* the register and M forms 0x80 .. 0xB7, the immediate forms, INR, DCR, DAA
ResultOps ==
    (128 .. 183) \cup {198, 206, 214, 230, 246}
    \cup {4 + 8 * i : i \in 0 .. 7} \cup {5 + 8 * i : i \in 0 .. 7} \cup {39}

\* the 8-bit result of the step from pre to post: the byte the instruction
\* left in its destination (the accumulator, or the register or cell of INR
\* and DCR); ADI leaves its sum nowhere, so there the sum itself
ResultByte(pre, post) ==
    LET opcode == Opcode(pre)
    IN IF opcode = 198 THEN (pre.a + Byte2(pre)) % 256
       ELSE IF opcode < 64 /\ opcode # 39 THEN Operand(post, RegOf(opcode \div 8))
       ELSE post.a

C13_CarryIffSumAbove255 ==
    (Completed /\ LastOp \in (128 .. 143) \cup {198, 206}) =>
        LET pre == Last.st
            operand == IF LastOp \in {198, 206} THEN Byte2(pre)
                       ELSE Operand(pre, RegOf(LastOp % 8))
            carry_in == IF LastOp \in (136 .. 143) \cup {206} THEN pre.cc.cy ELSE 0
        IN state.cc.cy = Bool(pre.a + operand + carry_in > 255)

\* the opcodes that may change Carry and no other flag: DAD, the four
\* rotates, STC and CMC
OnlyCarryOps == {9, 25, 41, 57} \cup {7, 15, 23, 31} \cup {55, 63}

\* the opcodes that may change no flag: INX, DCX, CMA, MOV, MVI, LXI and the
\* loads and stores STAX, LDAX, SHLD, LHLD, STA, LDA
NoFlagOps ==
    {3, 19, 35, 51} \cup {11, 27, 43, 59} \cup {47}
    \cup ((64 .. 127) \ {118}) \cup {6 + 8 * i : i \in 0 .. 7}
    \cup {1, 17, 33, 49} \cup {2, 18, 10, 26, 34, 42, 50, 58}

\* the opcodes of INR and DCR
IncDecOps == {4 + 8 * i : i \in 0 .. 7} \cup {5 + 8 * i : i \in 0 .. 7}

\* C14: a flag outside the set an opcode may change keeps its value: INR and
\* DCR keep Carry; DAD, the rotates, CMC and STC keep Zero, Sign, Parity and
\* AC; INX, DCX, CMA, MOV, MVI, LXI and the loads and stores keep every flag
C14_OtherFlagsKept ==
    Completed =>
        LET old == Last.st.cc
            new == state.cc
        IN /\ LastOp \in IncDecOps => new.cy = old.cy
           /\ LastOp \in OnlyCarryOps =>
                  (new.z = old.z /\ new.s = old.s /\ new.p = old.p /\ new.ac = old.ac)
           /\ LastOp \in NoFlagOps => new = old

\* INR B wraps 255 to 0: Zero is set, Carry stays 0
C14_Witness ==
    /\ Completed
    /\ LastOp = 4
    /\ Last.st.b = 255
    /\ Last.st.cc.cy = 0
    /\ Last.st.cc.z = 0
    /\ state.b = 0
    /\ state.cc.z = 1
    /\ state.cc.cy = 0

\* C15: a MOV of a register to itself (0x40, 0x49, 0x52, 0x5B, 0x64, 0x6D,
\* 0x7F) leaves every register, flag, SP and memory cell as it was and PC
\* one higher
C15_MovToSelfIsNop ==
    (Completed /\ LastOp \in {64, 73, 82, 91, 100, 109, 127}) =>
        state = [Last.st EXCEPT !.pc = (@ + 1) % 65536]

C15_Witness ==
    /\ Completed
    /\ LastOp = 64
    /\ Last.st.a = 155
    /\ Last.st.b = 255
    /\ Last.st.cc.cy = 1
    /\ Last.st.pc = 256
    /\ state.b = 255
    /\ state.pc = 257

\* C16: when a step takes the fatal path (an opcode with no behaviour of its
\* own, a reserved opcode, or HLT 0x76), what it prints holds both the value
\* of the offending opcode and the PC it was fetched at
C16_FatalReportHasOpcodeAndPc ==
    loc = "fatal" =>
        \E k \in DOMAIN report :
            \E i, j \in DOMAIN report[k].args :
                /\ i # j
                /\ report[k].args[i] = LastOp
                /\ report[k].args[j] = Last.st.pc

\* C17: when the first instruction is dispatched the seven registers, the
\* five flags, SP, PC and the interrupt-enable flag are 0, and every memory
\* cell at or above the size n of the image holds 0 (the cells below n hold
\* the image)
C17_InitialStateZeroed ==
    Dispatched =>
        LET first == hist[1].st
        IN /\ \A r \in {"a", "b", "c", "d", "e", "h", "l", "sp", "pc", "int_enable"} :
                  first[r] = 0
           /\ \A f \in {"z", "s", "p", "cy", "ac"} : first.cc[f] = 0
           /\ \A i \in DOMAIN first.memory :
                  (i >= fsize /\ i < MemSize) => first.memory[i] = 0

Sign32Samples == {0, 1, 128, 32767, 32768, 32769, 65535, 65536, 98304, 98432}

BitCount(x) == Cardinality({k \in 0 .. 7 : (x \div (2 ^ k)) % 2 = 1})

C21_FlagsAreBits ==
    /\ \A f \in {"z", "s", "p", "cy", "ac"} : state.cc[f] \in {0, 1}
    /\ (Completed /\ LastOp = 63) => state.cc.cy = 1 - Last.st.cc.cy
    /\ (Completed /\ LastOp = 55) => state.cc.cy = 1

\* STC sets Carry and CMC after it clears it again
C21_Witness ==
    /\ Len(hist) = 2
    /\ Completed
    /\ Opcode(hist[1].st) = 55
    /\ Opcode(hist[2].st) = 63
    /\ hist[1].st.cc.cy = 0
    /\ hist[2].st.cc.cy = 1
    /\ state.cc.cy = 0

\* C22: each rotate moves A by one bit and sets Carry to the bit moved out:
\* RLC fills bit 0 with the old bit 7, RRC fills bit 7 with the old bit 0,
\* RAL fills bit 0 with the old Carry, RAR fills bit 7 with the old Carry
C22_RotatesByOneBit ==
    (Completed /\ LastOp \in {7, 15, 23, 31}) =>
        LET a == Last.st.a
            cy == Last.st.cc.cy
            bit7 == a \div 128
            bit0 == a % 2
        IN CASE LastOp = 7 ->
                  state.a = (2 * a + bit7) % 256 /\ state.cc.cy = bit7
             [] LastOp = 15 ->
                  state.a = (a \div 2) + 128 * bit0 /\ state.cc.cy = bit0
             [] LastOp = 23 ->
                  state.a = (2 * a + cy) % 256 /\ state.cc.cy = bit7
             [] LastOp = 31 ->
                  state.a = (a \div 2) + 128 * cy /\ state.cc.cy = bit0

\* RLC of 0x9B with Carry 0 gives 0x37 and Carry 1
C22_Witness ==
    /\ Completed
    /\ LastOp = 7
    /\ Last.st.a = 155
    /\ Last.st.cc.cy = 0
    /\ state.a = 55
    /\ state.cc.cy = 1

\* the 16-bit value of the pair with high byte hi and low byte lo
PairVal(hi, lo) == 256 * hi + lo

\* C23: DAD (0x09 BC, 0x19 DE, 0x29 HL, 0x39 SP) leaves HL = (HL + pair) mod
\* 65536 and Carry = 1 exactly when HL + pair is above 65535, with the pair
\* as it was before the step (so DAD H doubles HL), and changes no register
\* other than H and L
C23_DadAddsPairToHl ==
    (Completed /\ LastOp \in {9, 25, 41, 57}) =>
        LET pre == Last.st
            hl == PairVal(pre.h, pre.l)
            pair == CASE LastOp = 9 -> PairVal(pre.b, pre.c)
                      [] LastOp = 25 -> PairVal(pre.d, pre.e)
                      [] LastOp = 41 -> hl
                      [] LastOp = 57 -> pre.sp
        IN /\ PairVal(state.h, state.l) = (hl + pair) % 65536
           /\ state.h \in 0 .. 255 /\ state.l \in 0 .. 255
           /\ state.cc.cy = Bool(hl + pair > 65535)
           /\ \A r \in {"a", "b", "c", "d", "e", "sp"} : state[r] = pre[r]

\* DAD H of HL = 0x8001 gives 0x0002 with Carry
C23_Witness ==
    /\ Completed
    /\ LastOp = 41
    /\ Last.st.h = 128
    /\ Last.st.l = 1
    /\ Last.st.cc.cy = 0
    /\ state.h = 0
    /\ state.l = 2
    /\ state.cc.cy = 1

\* the value of pair k of the state st: 0 is BC, 1 is DE, 2 is HL, 3 is SP
PairOf(st, k) ==
    CASE k = 0 -> PairVal(st.b, st.c)
      [] k = 1 -> PairVal(st.d, st.e)
      [] k = 2 -> PairVal(st.h, st.l)
      [] k = 3 -> st.sp

\* call i of emulate_op came back
StepDone(i) == i < Len(hist) \/ (i = Len(hist) /\ Completed)

\* the state call i of emulate_op left
StepPost(i) == IF i < Len(hist) THEN hist[i + 1].st ELSE state

C25_SubCarryIsBorrow ==
    (Completed /\ LastOp \in (144 .. 159) \cup {214}) =>
        LET pre == Last.st
            x == IF LastOp = 214 THEN Byte2(pre) ELSE Operand(pre, RegOf(LastOp % 8))
            borrow_in == IF LastOp \in 152 .. 159 THEN pre.cc.cy ELSE 0
        IN /\ state.cc.cy = Bool(pre.a < x + borrow_in)
           /\ state.a = (pre.a - x - borrow_in) % 256

\* SBB B with A = 1, B = 1 and Carry 1 borrows: A = 255 and Carry 1
C25_Witness ==
    /\ Completed
    /\ LastOp = 152
    /\ Last.st.a = 1
    /\ Last.st.b = 1
    /\ Last.st.cc.cy = 1
    /\ state.a = 255
    /\ state.cc.cy = 1

\* the registers of the order B, C, D, E, H, L, M, A, with M the memory cell
\* at the address in HL
MovRegs == <<"b", "c", "d", "e", "h", "l", "m", "a">>

\* C26: one step of a MOV opcode 0x40 .. 0x7F other than 0x76, with
\* destination (opcode >> 3) & 7 and source opcode & 7 in the order B, C, D,
\* E, H, L, M, A, copies the source as it was before the step (a register,
\* or memory[HL]) into the destination (a register, or memory[HL]) and
\* changes nothing else but PC; 0x76 moves nothing and takes the fatal path
C26_MovCopiesSourceToDestination ==
    /\ (Completed /\ LastOp \in (64 .. 127) \ {118}) =>
           LET pre == Last.st
               dst == MovRegs[((LastOp \div 8) % 8) + 1]
               src == MovRegs[(LastOp % 8) + 1]
               hl == PairVal(pre.h, pre.l)
               v == IF src = "m" THEN pre.memory[hl] ELSE pre[src]
           IN /\ state.pc = (pre.pc + 1) % 65536
              /\ state.cc = pre.cc
              /\ state.sp = pre.sp
              /\ state.int_enable = pre.int_enable
              /\ \A r \in {"a", "b", "c", "d", "e", "h", "l"} :
                     state[r] = IF r = dst THEN v ELSE pre[r]
              /\ \A i \in DOMAIN pre.memory :
                     (dst # "m" \/ i # hl) =>
                         (i \in DOMAIN state.memory /\ state.memory[i] = pre.memory[i])
              /\ dst = "m" => (hl \in DOMAIN state.memory /\ state.memory[hl] = v)
              /\ DOMAIN state.memory = DOMAIN pre.memory \cup (IF dst = "m" THEN {hl} ELSE {})
    /\ (Dispatched /\ LastOp = 118) => (loc = "fatal" /\ state = Last.st)

\* MOV M,A stores the accumulator at the address in HL
C26_Witness ==
    /\ Completed
    /\ LastOp = 119
    /\ Last.st.a = 155
    /\ Last.st.h = 5
    /\ Last.st.l = 6
    /\ Last.st.pc = 0
    /\ state.memory[1286] = 155
    /\ state.h = 5
    /\ state.pc = 1

\* C27: set_flags32 with Zero selected leaves Zero = 1 when the high and the
\* low 16-bit half of the answer both evaluate Zero, and Zero = 0 otherwise
C27_Zero32WhenBothHalvesZero ==
    (Dispatched /\ (Last.flagstoset \div SET_Z_FLAG) % 2 = 1) =>
        LET left == Last.answer \div 65536
            right == Last.answer % 65536
        IN state.cc.z = Bool(left % 256 = 0 /\ right % 256 = 0)

RECURSIVE DecVal(_, _, _)
DecVal(input, i, v) ==
    IF i > Len(input) \/ input[i] \notin {"0", "1", "2", "3", "4", "5", "6", "7", "8", "9"}
    THEN v
    ELSE DecVal(input, i + 1,
                10 * v + (CHOOSE d \in 0 .. 9 :
                            <<"0", "1", "2", "3", "4", "5", "6", "7", "8", "9">>[d + 1] = input[i]))

\* the number of instructions a line asks for: 1 for a line of one
\* character, else the smaller of its value N and 100000
Requested(input) ==
    IF Len(input) = 1 THEN 1
    ELSE LET N == DecVal(input, 1, 0) IN IF N < 100000 THEN N ELSE 100000

\* C29: the loop asks only when the counter of instructions still to run is
\* 0; between a line asking for N instructions and the next prompt exactly
\* min(N, 100000) instructions are dispatched (the counter holds what is
\* left of them), unless the loop exits or a fatal opcode comes first; a line
\* of one character asks for 1, and a line that parses to 0 dispatches
\* nothing and leaves the counter 0, so the next iteration asks again
C29_PromptOnlyAtZeroAndRunsRequested ==
    /\ [][asked' # asked =>
             /\ instrs_to_advance = 0
             /\ asked.input # <<>> => instr_count - asked.at = Requested(asked.input)]_vars
    /\ [](asked.input # <<>> =>
             instrs_to_advance = Requested(asked.input) - (instr_count - asked.at))
    /\ []((asked.input # <<>> /\ Requested(asked.input) = 0) =>
             (instr_count = asked.at /\ loc = "loop" /\ state.pc < fsize))

\* enter alone ran one instruction, then the line 2 ran two, and the counter
\* is back at 0
C29_Witness ==
    /\ asked = [input |-> <<"2", "\n">>, at |-> 1]
    /\ instr_count = 3
    /\ instrs_to_advance = 0
    /\ Len(hist) = 3
    /\ loc = "loop"

C31_LogicalOpsClearCarry ==
    /\ (Completed /\ LastOp \in (160 .. 183) \cup {230, 246}) => state.cc.cy = 0
    /\ (Completed /\ LastOp = 175) =>
           (state.a = 0 /\ state.cc.z = 1 /\ state.cc.cy = 0)

\* XRA A with A = 0x9B and Carry set
C31_Witness ==
    /\ Completed
    /\ LastOp = 175
    /\ Last.st.a = 155
    /\ Last.st.cc.cy = 1
    /\ Last.st.cc.z = 0
    /\ state.a = 0
    /\ state.cc.z = 1
    /\ state.cc.cy = 0

\* C32: DAA (0x27) with both nibbles of A at most 9, AC = 0 and Carry = 0
\* leaves A as it was and Carry = 0
C32_DaaKeepsValidBcd ==
    (/\ Completed
     /\ LastOp = 39
     /\ Last.st.a % 16 <= 9
     /\ Last.st.a \div 16 <= 9
     /\ Last.st.cc.ac = 0
     /\ Last.st.cc.cy = 0) =>
        (state.a = Last.st.a /\ state.cc.cy = 0)

\* DAA of 0x99, both nibbles at the largest digit
C32_Witness ==
    /\ Completed
    /\ LastOp = 39
    /\ Last.st.a = 153
    /\ Last.st.cc.ac = 0
    /\ Last.st.cc.cy = 0
    /\ state.a = 153
    /\ state.cc.cy = 0

====
